---- MODULE Spec2Model ----
(***************************************************************************)
(* A model of the text-to-SQL request pipeline: the SQL safety validator   *)
(* (services/sql_validator.py), the selector/synthesizer response parser   *)
(* (services/llm_service.py) and the chat orchestrator (routes/chat.py).   *)
(*                                                                         *)
(* Text is modelled character by character: a string is a sequence of      *)
(* one-character strings.  Code points outside ASCII are written by their  *)
(* code point name ("U+0130" is the capital dotted I), and still count as  *)
(* ONE character of the sequence.                                          *)
(***************************************************************************)
EXTENDS Integers, Sequences, FiniteSets, TLC

VARIABLES
    pc,           \* the stage the chat handler has reached
    question,     \* request.question
    catalog,      \* the names of the schemas get_schemas() returns
    collection,   \* the names held by the similarity index
    candidates,   \* the result of indexer.search
    response,     \* the text LLMService.generate returned
    result,       \* the selector's result
    exec_result,  \* the executor's result
    calls,        \* the calls the handler has made, in order
    out,          \* what the handler returned or raised
    vpc,          \* validate_sql applied to an input: "input" or "done"
    vsql,         \* the input query
    vres,         \* the verdict
    xpc,          \* SQLExecutor.execute: "call", "running" or "returned"
    xsql,         \* its sql argument
    xexists,      \* whether Path(db_path).exists()
    xsigalrm,     \* whether the platform's signal module has SIGALRM
    xquery,       \* what the database does with the query, and after how long
    xelapsed,     \* the seconds the query has been running
    xconn,        \* the connection: "none", "open" or "closed"
    xres,         \* the dict execute returned
    cpc,          \* calculate_confidence_score: "input" or "done"
    cargs,        \* its arguments
    cscore,       \* the score it returned
    ipc,          \* the writer of the index: "idle", or a step of build_index
    iop,          \* the writer's operation, its catalog, what it found
    store,        \* the collection in the Chroma directory
    builds,       \* the writer's operations so far
    lastread,     \* what the last search or count of a reader observed
    kpc,          \* the schema cache: "input", "saved" or "loaded"
    kschemas,     \* the catalog handed to save_schemas_to_cache
    kfile,        \* schemas.json, as the JSON value written
    kloaded,      \* what load_schemas_from_cache returned
    spc,          \* select_database_and_generate_sql: "input" or "done"
    stext,        \* the model's response
    scands,       \* the candidates passed in
    sres          \* the dict returned

chatVars == <<pc, question, catalog, collection, candidates, response, result,
              exec_result, calls, out>>
validatorVars == <<vpc, vsql, vres>>
executorVars == <<xpc, xsql, xexists, xsigalrm, xquery, xelapsed, xconn, xres>>
scoreVars == <<cpc, cargs, cscore>>
indexVars == <<ipc, iop, store, builds, lastread>>
cacheVars == <<kpc, kschemas, kfile, kloaded>>
selectVars == <<spc, stext, scands, sres>>
otherVars == <<indexVars, cacheVars, selectVars>>
vars == <<chatVars, validatorVars, executorVars, scoreVars, otherVars>>

----------------------------------------------------------------------------
(* Characters                                                              *)

DotI    == "U+0130"  \* capital I with dot above
NoDotI  == "U+0131"  \* small dotless i
CombDot == "U+0307"  \* combining dot above
BigS    == "U+015E"  \* capital S with cedilla
SmallS  == "U+015F"  \* small s with cedilla
BigU    == "U+00DC"  \* capital U with diaeresis
SmallU  == "U+00FC"  \* small u with diaeresis
BigG    == "U+011E"  \* capital G with breve
SmallG  == "U+011F"  \* small g with breve
BigO    == "U+00D6"  \* capital O with diaeresis
SmallO  == "U+00F6"  \* small o with diaeresis
BigC    == "U+00C7"  \* capital C with cedilla
SmallC  == "U+00E7"  \* small c with cedilla
Backtick == "U+0060" \* grave accent, the code-fence character

LowerAZ == <<"a","b","c","d","e","f","g","h","i","j","k","l","m",
             "n","o","p","q","r","s","t","u","v","w","x","y","z">>
UpperAZ == <<"A","B","C","D","E","F","G","H","I","J","K","L","M",
             "N","O","P","Q","R","S","T","U","V","W","X","Y","Z">>
LowerTR == <<SmallS, SmallU, SmallG, SmallO, SmallC>>
UpperTR == <<BigS, BigU, BigG, BigO, BigC>>

Range(f) == {f[i] : i \in DOMAIN f}

Digits == {"0", "1", "2", "3", "4", "5", "6", "7", "8", "9"}

\* str.isspace() characters of the alphabet (what str.strip() removes and
\* what the regular expression class \s matches)
Whitespace == {" ", "\n", "\t", "\r"}

Punctuation == {";", "-", "/", "*", "@", "'", "=", "(", ")", ":", Backtick, ",",
                "?", ".", "\"", "<", ">", "!"}

Letters == Range(LowerAZ) \cup Range(UpperAZ) \cup Range(LowerTR)
           \cup Range(UpperTR) \cup {DotI, NoDotI}

\* the regular expression class \w on str patterns: Unicode letters,
\* digits and the underscore
WordChars == Letters \cup Digits \cup {"_"}

Chars == WordChars \cup Whitespace \cup Punctuation \cup {CombDot}

IndexOf(c, f) == CHOOSE i \in DOMAIN f : f[i] = c

\* str.upper(), one character at a time.  Unicode, not Turkish, casing:
\* "i" and the dotless i both become "I"; the dotted capital stays itself.
UpperMap == [c \in Chars |->
    IF c \in Range(LowerAZ) THEN UpperAZ[IndexOf(c, LowerAZ)]
    ELSE IF c \in Range(LowerTR) THEN UpperTR[IndexOf(c, LowerTR)]
    ELSE IF c = NoDotI THEN "I"
    ELSE c]

\* str.lower(), one character at a time; the dotted capital I becomes the
\* two code points "i" + combining dot.
LowerMap == [c \in Chars |->
    IF c \in Range(UpperAZ) THEN <<LowerAZ[IndexOf(c, UpperAZ)]>>
    ELSE IF c \in Range(UpperTR) THEN <<LowerTR[IndexOf(c, UpperTR)]>>
    ELSE IF c = DotI THEN <<"i", CombDot>>
    ELSE <<c>>]

Upper(s) == [i \in 1..Len(s) |-> UpperMap[s[i]]]

RECURSIVE Lower(_)
Lower(s) == IF s = <<>> THEN <<>> ELSE LowerMap[Head(s)] \o Lower(Tail(s))

----------------------------------------------------------------------------
(* str operations                                                          *)

\* s[i:i+len(t)] == t  (i is 1-based)
HasAt(s, i, t) ==
    /\ i >= 1
    /\ i + Len(t) - 1 <= Len(s)
    /\ \A j \in 1..Len(t) : s[i + j - 1] = t[j]

\* t in s
Contains(s, t) == \E i \in 1..(Len(s) - Len(t) + 1) : HasAt(s, i, t)

StartsWith(s, t) == HasAt(s, 1, t)

EndsWith(s, t) == Len(t) <= Len(s) /\ HasAt(s, Len(s) - Len(t) + 1, t)

\* s.strip()
Strip(s) ==
    LET keep == {i \in 1..Len(s) : s[i] \notin Whitespace}
    IN  IF keep = {} THEN <<>>
        ELSE LET lo == CHOOSE i \in keep : \A j \in keep : i <= j
                 hi == CHOOSE i \in keep : \A j \in keep : i >= j
             IN  SubSeq(s, lo, hi)

\* index of the first occurrence of t in s at or after position from, 0 if none
Find(s, t, from) ==
    LET hits == {i \in from..(Len(s) - Len(t) + 1) : HasAt(s, i, t)}
    IN  IF hits = {} THEN 0 ELSE CHOOSE i \in hits : \A j \in hits : i <= j

\* s.split(sep, 1)[1]  (only used where sep occurs in s)
AfterFirst(s, sep) ==
    LET i == Find(s, sep, 1) IN SubSeq(s, i + Len(sep), Len(s))

\* s.replace(t, r)
RECURSIVE Replace(_, _, _)
Replace(s, t, r) ==
    LET i == Find(s, t, 1)
    IN  IF i = 0 THEN s
        ELSE SubSeq(s, 1, i - 1) \o r
             \o Replace(SubSeq(s, i + Len(t), Len(s)), t, r)

\* s.split('\n')
RECURSIVE SplitLines(_)
SplitLines(s) ==
    LET i == Find(s, <<"\n">>, 1)
    IN  IF i = 0 THEN <<s>>
        ELSE <<SubSeq(s, 1, i - 1)>> \o SplitLines(SubSeq(s, i + 1, Len(s)))

\* ' '.join(parts)
RECURSIVE JoinSpace(_)
JoinSpace(parts) ==
    IF parts = <<>> THEN <<>>
    ELSE IF Len(parts) = 1 THEN parts[1]
    ELSE parts[1] \o <<" ">> \o JoinSpace(Tail(parts))

----------------------------------------------------------------------------
(* Regular expressions, as far as the validator uses them.  A pattern is a *)
(* sequence of elements; re.search tries every start position.             *)

Lit(t)  == [kind |-> "lit", text |-> t, min |-> 0]
WsStar  == [kind |-> "ws", text |-> <<>>, min |-> 0]      \* \s*
WsPlus  == [kind |-> "ws", text |-> <<>>, min |-> 1]      \* \s+
DotStar == [kind |-> "dot", text |-> <<>>, min |-> 0]     \* .*  (no DOTALL)
EndAnchor == [kind |-> "end", text |-> <<>>, min |-> 0]   \* $   (no MULTILINE)
WordB   == [kind |-> "b", text |-> <<>>, min |-> 0]       \* \b

\* number of consecutive characters of s from position i that lie in set cs
RECURSIVE RunLen(_, _, _)
RunLen(s, i, cs) ==
    IF i > Len(s) \/ s[i] \notin cs THEN 0 ELSE 1 + RunLen(s, i + 1, cs)

IsWordAt(s, i) == i >= 1 /\ i <= Len(s) /\ s[i] \in WordChars

RECURSIVE MatchFrom(_, _, _, _)
MatchFrom(s, i, pat, k) ==
    IF k > Len(pat) THEN TRUE
    ELSE LET e == pat[k] IN
         CASE e.kind = "lit" ->
                HasAt(s, i, e.text) /\ MatchFrom(s, i + Len(e.text), pat, k + 1)
           [] e.kind = "ws" ->
                \E n \in e.min..RunLen(s, i, Whitespace) :
                    MatchFrom(s, i + n, pat, k + 1)
           [] e.kind = "dot" ->
                \E n \in 0..RunLen(s, i, Chars \ {"\n"}) :
                    MatchFrom(s, i + n, pat, k + 1)
           [] e.kind = "end" ->
                /\ \/ i = Len(s) + 1
                   \/ i = Len(s) /\ s[i] = "\n"
                /\ MatchFrom(s, i, pat, k + 1)
           [] e.kind = "b" ->
                /\ IsWordAt(s, i - 1) # IsWordAt(s, i)
                /\ MatchFrom(s, i, pat, k + 1)

\* re.search(pat, s) is not None
ReSearch(pat, s) == \E i \in 1..(Len(s) + 1) : MatchFrom(s, i, pat, 1)

----------------------------------------------------------------------------
(* services/sql_validator.py                                               *)

SELECT == <<"S","E","L","E","C","T">>

\* the list with DROP left out
DANGEROUS_KEYWORDS_without_drop == <<
    <<"I","N","S","E","R","T">>,
    <<"U","P","D","A","T","E">>,
    <<"D","E","L","E","T","E">>,
    <<"C","R","E","A","T","E">>,
    <<"A","L","T","E","R">>,
    <<"T","R","U","N","C","A","T","E">>,
    <<"E","X","E","C">>,
    <<"E","X","E","C","U","T","E">>,
    <<"G","R","A","N","T">>,
    <<"R","E","V","O","K","E">>,
    <<"A","T","T","A","C","H">>,
    <<"D","E","T","A","C","H">>,
    <<"P","R","A","G","M","A">>,
    <<"V","A","C","U","U","M">>,
    <<"R","E","I","N","D","E","X">> >>

DANGEROUS_KEYWORDS == <<
    <<"I","N","S","E","R","T">>,
    <<"U","P","D","A","T","E">>,
    <<"D","E","L","E","T","E">>,
    <<"D","R","O","P">>,
    <<"C","R","E","A","T","E">>,
    <<"A","L","T","E","R">>,
    <<"T","R","U","N","C","A","T","E">>,
    <<"E","X","E","C">>,
    <<"E","X","E","C","U","T","E">>,
    <<"G","R","A","N","T">>,
    <<"R","E","V","O","K","E">>,
    <<"A","T","T","A","C","H">>,
    <<"D","E","T","A","C","H">>,
    <<"P","R","A","G","M","A">>,
    <<"V","A","C","U","U","M">>,
    <<"R","E","I","N","D","E","X">> >>

\* the patterns of INJECTION_PATTERNS, in list order
INJECTION_PATTERNS == <<
    << Lit(<<";">>), WsStar, Lit(<<"-","-">>) >>,
    << Lit(<<"-","-">>), WsStar, EndAnchor >>,
    << Lit(<<"/","*">>), DotStar, Lit(<<"*","/">>) >>,
    << Lit(<<"@","@">>) >>,
    << Lit(<<"U","N","I","O","N">>), WsPlus, Lit(<<"A","L","L">>), WsPlus, Lit(SELECT) >>,
    << Lit(<<"O","R">>), WsPlus, Lit(<<"1">>), WsStar, Lit(<<"=">>), WsStar, Lit(<<"1">>) >>,
    << Lit(<<"O","R">>), WsPlus, Lit(<<"'","1","'">>), WsStar, Lit(<<"=">>), WsStar, Lit(<<"'","1","'">>) >> >>

\* a result message: a fixed text and the value formatted into it
Msg(t, a) == [text |-> t, arg |-> a]
NoMsg == Msg("", <<>>)

REASON_EMPTY == "SQL sorgusu bos olamaz."
REASON_NOT_SELECT == "Sadece SELECT sorgulari desteklenmektedir."
REASON_KEYWORD == "Guvenlik ihlali: '{keyword}' ifadesi kullanilamaz."
REASON_MULTIPLE == "Coklu SQL ifadeleri desteklenmemektedir."
REASON_INJECTION == "Guvenlik ihlali: Supheli SQL kalibi tespit edildi."
REASON_SUBQUERY == "Guvenlik ihlali: Alt sorguda '{keyword}' kullanilamaz."

\* the empty query let through
IsEmptyQuery_never(sql) == FALSE

\* not sql or not sql.strip()
IsEmptyQuery(sql) == sql = <<>> \/ Strip(sql) = <<>>

\* the normalisation without the upper-casing
sql_normalized_no_upper(sql) == Strip(sql)

\* sql.strip().upper()
sql_normalized(sql) == Upper(Strip(sql))

\* SELECT looked for anywhere instead of at the start
StartsWithSelect_anywhere(sn) == Contains(sn, SELECT)

\* sql_normalized.startswith("SELECT")
StartsWithSelect(sn) == StartsWith(sn, SELECT)

\* r'\b' + keyword + r'\b'
KeywordPattern(keyword) == << WordB, Lit(keyword), WordB >>

\* the first keyword of DANGEROUS_KEYWORDS found in text (its index), 0 if none
FirstDangerousKeyword(text) ==
    LET hits == {k \in DOMAIN DANGEROUS_KEYWORDS :
                    ReSearch(KeywordPattern(DANGEROUS_KEYWORDS[k]), text)}
    IN  IF hits = {} THEN 0 ELSE CHOOSE k \in hits : \A j \in hits : k <= j

\* sql.strip() with one trailing ";" removed
sql_trimmed(sql) ==
    LET t == Strip(sql)
    IN  IF EndsWith(t, <<";">>) THEN SubSeq(t, 1, Len(t) - 1) ELSE t

\* ";" in sql_trimmed
HasMultipleStatements(sql) == Contains(sql_trimmed(sql), <<";">>)

\* any(re.search(pattern, sql_normalized) for pattern in INJECTION_PATTERNS)
MatchesInjection(sn) ==
    \E p \in DOMAIN INJECTION_PATTERNS : ReSearch(INJECTION_PATTERNS[p], sn)

\* re.findall(r'\(([^)]+)\)', text): the groups of the non-overlapping
\* matches, scanning from position from
RECURSIVE SubqueryMatches(_, _)
SubqueryMatches(text, from) ==
    LET opens == {i \in from..Len(text) :
                    /\ text[i] = "("
                    /\ RunLen(text, i + 1, Chars \ {")"}) >= 1
                    /\ i + 1 + RunLen(text, i + 1, Chars \ {")"}) <= Len(text)}
    IN  IF opens = {} THEN <<>>
        ELSE LET i == CHOOSE a \in opens : \A b \in opens : a <= b
                 n == RunLen(text, i + 1, Chars \ {")"})
             IN  <<SubSeq(text, i + 1, i + n)>>
                 \o SubqueryMatches(text, i + n + 2)

\* the keyword reported by the subquery loop (its index), 0 if none
FirstSubqueryKeyword(sn) ==
    LET subs == SubqueryMatches(sn, 1)
        bad  == {j \in DOMAIN subs : FirstDangerousKeyword(subs[j]) # 0}
    IN  IF bad = {} THEN 0
        ELSE FirstDangerousKeyword(subs[CHOOSE j \in bad : \A m \in bad : j <= m])

Verdict(v, m) == [is_valid |-> v, reason |-> m]

validate_sql(sql) ==
    IF IsEmptyQuery(sql) THEN Verdict(FALSE, Msg(REASON_EMPTY, <<>>))
    ELSE LET sn == sql_normalized(sql) IN
    IF ~StartsWithSelect(sn) THEN Verdict(FALSE, Msg(REASON_NOT_SELECT, <<>>))
    ELSE IF FirstDangerousKeyword(sn) # 0
        THEN Verdict(FALSE, Msg(REASON_KEYWORD,
                                DANGEROUS_KEYWORDS[FirstDangerousKeyword(sn)]))
    ELSE IF HasMultipleStatements(sql)
        THEN Verdict(FALSE, Msg(REASON_MULTIPLE, <<>>))
    ELSE IF MatchesInjection(sn)
        THEN Verdict(FALSE, Msg(REASON_INJECTION, <<>>))
    ELSE IF FirstSubqueryKeyword(sn) # 0
        THEN Verdict(FALSE, Msg(REASON_SUBQUERY,
                                DANGEROUS_KEYWORDS[FirstSubqueryKeyword(sn)]))
    ELSE Verdict(TRUE, NoMsg)


\* the queries of the module's own test list, with the verdict it expects
test_cases == <<
    [sql |-> <<"S","E","L","E","C","T"," ","*"," ","F","R","O","M"," ","u","s","e","r","s">>,
     expected_valid |-> TRUE],
    [sql |-> <<"S","E","L","E","C","T"," ","i","s","i","m"," ","F","R","O","M"," ",SmallS,"a","r","k",NoDotI,"c",NoDotI>>,
     expected_valid |-> TRUE],
    [sql |-> <<"s","e","l","e","c","t"," ","n","a","m","e"," ","f","r","o","m"," ","t","a","b","l","e","1">>,
     expected_valid |-> TRUE],
    [sql |-> <<"S","E","L","E","C","T"," ","*"," ","F","R","O","M"," ","u","s","e","r","s",";"," ","D","R","O","P"," ","T","A","B","L","E"," ","u","s","e","r","s",";">>,
     expected_valid |-> FALSE],
    [sql |-> <<"I","N","S","E","R","T"," ","I","N","T","O"," ","u","s","e","r","s"," ","V","A","L","U","E","S"," ","(","1",","," ","'","t","e","s","t","'",")">>,
     expected_valid |-> FALSE],
    [sql |-> <<"D","E","L","E","T","E"," ","F","R","O","M"," ","u","s","e","r","s"," ","W","H","E","R","E"," ","i","d"," ","="," ","1">>,
     expected_valid |-> FALSE],
    [sql |-> <<"U","P","D","A","T","E"," ","u","s","e","r","s"," ","S","E","T"," ","n","a","m","e"," ","="," ","'","t","e","s","t","'">>,
     expected_valid |-> FALSE],
    [sql |-> <<"S","E","L","E","C","T"," ","*"," ","F","R","O","M"," ","u","s","e","r","s"," ","W","H","E","R","E"," ","1","=","1"," ","O","R"," ","'","1","'","=","'","1","'">>,
     expected_valid |-> FALSE],
    [sql |-> <<"S","E","L","E","C","T"," ","*"," ","F","R","O","M"," ","u","s","e","r","s"," ","-","-"," ","c","o","m","m","e","n","t">>,
     expected_valid |-> FALSE],
    [sql |-> <<>>,
     expected_valid |-> FALSE],
    [sql |-> <<" "," "," ">>,
     expected_valid |-> FALSE] >>

----------------------------------------------------------------------------
(* services/llm_service.py: select_database_and_generate_sql               *)

BELIRSIZ == <<"B","E","L","I","R","S","I","Z">>
ALAKASIZ == <<"A","L","A","K","A","S","I","Z">>
VERI_YOK == <<"V","E","R","I","_","Y","O","K">>

\* an optional str: None, or a value
None == [some |-> FALSE, val |-> <<>>]
Some(v) == [some |-> TRUE, val |-> v]

\* Python truthiness of an optional str
Truthy(o) == o.some /\ o.val # <<>>

\* LLMService.generate returns response.text.strip()
generate(text) == Strip(text)

\* the text after the first ":" of a sentinel response, or the whole response
SentinelPayload(text) ==
    IF Contains(text, <<":">>) THEN Strip(AfterFirst(text, <<":">>))
    ELSE text

\* line.upper().startswith('VERITABANI:') or with the dotted capital I
IsDatabaseLine(line) ==
    \/ StartsWith(Upper(line), <<"V","E","R","I","T","A","B","A","N","I",":">>)
    \/ StartsWith(Upper(line), <<"V","E","R",DotI,"T","A","B","A","N","I",":">>)

IsSqlLine(line) == StartsWith(Upper(line), <<"S","Q","L",":">>)

\* line.split(':', 1)[1].strip().lower().replace('"', '').replace("'", "")
DatabaseToken(line) ==
    Replace(Replace(Lower(Strip(AfterFirst(line, <<":">>))), <<"\"">>, <<>>),
            <<"'">>, <<>>)

\* the loop over the text lines: the state is (db_name, sql)
RECURSIVE ScanLines(_, _, _)
ScanLines(lines, db_name, sql) ==
    IF lines = <<>> THEN [db_name |-> db_name, sql |-> sql]
    ELSE LET line == Strip(Head(lines)) IN
         IF IsDatabaseLine(line)
            THEN ScanLines(Tail(lines), Some(DatabaseToken(line)), sql)
         ELSE IF IsSqlLine(line)
            THEN ScanLines(Tail(lines), db_name,
                           Some(Strip(AfterFirst(line, <<":">>))))
         ELSE IF ~sql.some /\ StartsWith(Upper(line), SELECT)
            THEN ScanLines(Tail(lines), db_name, Some(line))
         ELSE ScanLines(Tail(lines), db_name, sql)

\* the lines collected for a query that spans several lines: from the first
\* line, each stripped and without its "SQL:" marker, up to and including
\* the first that contains ";"
RECURSIVE CollectSql(_)
CollectSql(lines) ==
    IF lines = <<>> THEN <<>>
    ELSE LET stripped == Strip(Head(lines))
             line == IF IsSqlLine(stripped)
                     THEN Strip(AfterFirst(stripped, <<":">>))
                     ELSE stripped
         IN  IF Contains(line, <<";">>) THEN <<line>>
             ELSE <<line>> \o CollectSql(Tail(lines))

\* "If SQL spans multiple lines, get the rest"
JoinMultiline(lines, sql) ==
    IF Truthy(sql) /\ ~EndsWith(sql.val, <<";">>)
    THEN LET starts == {i \in DOMAIN lines : Contains(Upper(lines[i]), SELECT)}
         IN  IF starts = {} THEN sql
             ELSE LET i == CHOOSE a \in starts : \A b \in starts : a <= b
                  IN  Some(JoinSpace(CollectSql(SubSeq(lines, i, Len(lines)))))
    ELSE sql

\* "Clean SQL"
CleanSql(sql) ==
    IF Truthy(sql)
    THEN LET a == Strip(Replace(Replace(sql.val, <<Backtick, Backtick, Backtick>>,
                                        <<>>), <<Backtick>>, <<>>))
             b == IF StartsWith(Lower(a), <<"s","q","l">>)
                  THEN Strip(SubSeq(a, 4, Len(a))) ELSE a
         IN  Some(IF EndsWith(b, <<";">>) THEN b ELSE b \o <<";">>)
    ELSE sql

\* c['name'].lower() == db_name or db_name in c['name'].lower()
CandidateMatches(c, db_name) ==
    Lower(c.name) = db_name \/ Contains(Lower(c.name), db_name)

\* the model's token taken as the selection, whether or not it is a candidate
MatchCandidate_token(cands, db_name) ==
    IF Truthy(db_name) THEN [cands[1] EXCEPT !.name = db_name.val]
    ELSE cands[1]

\* "Find matching candidate"
MatchCandidate(cands, db_name) ==
    IF Truthy(db_name)
    THEN LET hits == {i \in DOMAIN cands :
                        CandidateMatches(cands[i], db_name.val)}
         IN  IF hits = {} THEN cands[1]
             ELSE cands[CHOOSE i \in hits : \A j \in hits : i <= j]
    ELSE cands[1]

Selection(selected, sql) ==
    [selected |-> selected, sql |-> sql, db_name |-> selected.name]

\* the marker looked for in the response as it is written
HasMarker_exact(text, marker) == Contains(text, marker)

\* "BELIRSIZ" in response.upper()
HasMarker(text, marker) == Contains(Upper(text), marker)

\* the result for the model's text (the value generate returned)
select_database_and_generate_sql(text, cands) ==
    IF HasMarker(text, BELIRSIZ)
    THEN Selection(cands[1],
                   BELIRSIZ \o <<":", " ">> \o SentinelPayload(text))
    ELSE IF HasMarker(text, ALAKASIZ)
    THEN Selection(cands[1],
                   ALAKASIZ \o <<":", " ">> \o SentinelPayload(text))
    ELSE LET lines  == SplitLines(Strip(text))
             parsed == ScanLines(lines, None, None)
             sql    == CleanSql(JoinMultiline(lines, parsed.sql))
         IN  Selection(MatchCandidate(cands, parsed.db_name),
                       IF Truthy(sql) THEN sql.val ELSE <<>>)

----------------------------------------------------------------------------
(* services/sql_executor.py: SQLExecutor.execute                           *)

\* self.max_rows, the row cap of the executor
max_rows == 2

\* self.timeout_seconds, the deadline of a query in seconds
timeout_seconds == 2

ERR_DB_NOT_FOUND == "Veritabani bulunamadi: {db_path}"
ERR_TIMEOUT == "Sorgu zaman asimina ugradi."
ERR_DATABASE == "Veritabani hatasi: {e}"
ERR_UNEXPECTED == "Beklenmeyen hata: {e}"

\* what the database does with a query: it yields n rows, the alarm fires
\* first, or it raises
DbRows(n) == [kind |-> "rows", n |-> n]
DbTimeout == [kind |-> "timeout", n |-> 0]
DbError == [kind |-> "sqlite3.Error", n |-> 0]
DbCrash == [kind |-> "Exception", n |-> 0]

DbOutcomes == {DbRows(n) : n \in 0..(max_rows + 1)} \cup {DbTimeout, DbError, DbCrash}

\* a failure that leaves its error field empty
ExecFailure_silent(error, events) ==
    [success |-> FALSE, columns |-> <<>>, rows |-> <<>>, row_count |-> 0,
     has_more |-> FALSE, error |-> NoMsg, events |-> events]

\* the dict of the four failure returns of execute
ExecFailure(error, events) ==
    [success |-> FALSE, columns |-> <<>>, rows |-> <<>>, row_count |-> 0,
     has_more |-> FALSE, error |-> error, events |-> events]

Min(a, b) == IF a <= b THEN a ELSE b
Max(a, b) == IF a >= b THEN a ELSE b

\* every file taken to be there
PathExists_always(db_path, exists) == TRUE

\* Path(db_path).exists()
PathExists(db_path, exists) == exists

\* every row of the result fetched
fetchmany_all(n) == [i \in 1..n |-> <<i>>]

\* cursor.fetchmany(self.max_rows) on a result of n rows
fetchmany(n) == [i \in 1..Min(n, max_rows) |-> <<i>>]

\* execute from sqlite3.connect on, when the database behaves as dbout
execute_connected(dbout) ==
    IF dbout.kind = "timeout"
        THEN ExecFailure(Msg(ERR_TIMEOUT, <<>>),
                         <<"validate_sql", "connect", "cursor.execute">>)
    ELSE IF dbout.kind = "sqlite3.Error"
        THEN ExecFailure(Msg(ERR_DATABASE, <<>>),
                         <<"validate_sql", "connect", "cursor.execute">>)
    ELSE IF dbout.kind = "Exception"
        THEN ExecFailure(Msg(ERR_UNEXPECTED, <<>>),
                         <<"validate_sql", "connect", "cursor.execute">>)
    ELSE [success |-> TRUE, columns |-> <<"c">>, rows |-> fetchmany(dbout.n),
          row_count |-> Len(fetchmany(dbout.n)),
          has_more |-> (Len(fetchmany(dbout.n)) = max_rows),
          error |-> NoMsg,
          events |-> <<"validate_sql", "connect", "cursor.execute", "close">>]

\* execute from the check of the database file on
execute_checked(db_path, exists, dbout) ==
    IF ~PathExists(db_path, exists)
        THEN ExecFailure(Msg(ERR_DB_NOT_FOUND, db_path), <<"validate_sql">>)
    ELSE execute_connected(dbout)

\* the verdict of the validator left unread
execute_validated_skipped(v, db_path, exists, dbout) ==
    execute_checked(db_path, exists, dbout)

\* execute(db_path, sql) from its validation verdict v on, when the file
\* exists or not and the database behaves as dbout; events lists what
\* execute did on the way
execute_validated(v, db_path, exists, dbout) ==
    IF ~v.is_valid THEN ExecFailure(v.reason, <<"validate_sql">>)
    ELSE execute_checked(db_path, exists, dbout)

\* SQLExecutor.execute(db_path, sql)
execute(db_path, exists, sql, dbout) ==
    execute_validated(validate_sql(sql), db_path, exists, dbout)

\* whether execute got as far as sqlite3.connect
Connected(r) == \E i \in DOMAIN r.events : r.events[i] = "connect"

\* no call of execute under way
ExecutorIdle ==
    /\ xpc = "idle"
    /\ xsql = <<>>
    /\ xexists = FALSE
    /\ xsigalrm = FALSE
    /\ xquery = [kind |-> "rows", n |-> 0, duration |-> 0]
    /\ xelapsed = 0
    /\ xconn = "none"
    /\ xres = ExecFailure(NoMsg, <<>>)

----------------------------------------------------------------------------
(* routes/chat.py                                                          *)

TOP_K_CANDIDATES == 5

\* the weighted sum returned as it is
calculate_confidence_score_unclamped(similarity, sql_valid, execution_success, row_count) ==
    similarity * 5 + (IF sql_valid THEN 200 ELSE 0)
    + (IF execution_success THEN 200 ELSE 0)
    + (IF row_count > 0 THEN 100 ELSE 50)

\* similarity and confidence are kept as integers: similarity in
\* hundredths, the confidence score in tenths of a point
calculate_confidence_score(similarity, sql_valid, execution_success, row_count) ==
    LET similarity_score == similarity
        sql_score == IF sql_valid THEN 100 ELSE 0
        execution_score == IF execution_success THEN 100 ELSE 0
        result_score == IF row_count > 0 THEN 100 ELSE 50
        confidence == similarity_score * 5 + sql_score * 2
                      + execution_score * 2 + result_score * 1
    IN  Max(0, Min(1000, confidence))

\* no call of calculate_confidence_score under way
ScoreIdle ==
    /\ cpc = "idle"
    /\ cargs = [similarity |-> 0, sql_valid |-> FALSE,
                execution_success |-> FALSE, row_count |-> 0]
    /\ cscore = 0

modification_keywords == <<
    <<"S",DotI,"L">>,
    <<"S","I","L","L">>,
    <<"D","E","L","E","T","E">>,
    <<"K","A","L","D","I","R">>,
    <<"G",BigU,"N","C","E","L","L","E">>,
    <<"U","P","D","A","T","E">>,
    <<"D","E",BigG,DotI,BigS,"T",DotI,"R">>,
    <<"E","K","L","E">>,
    <<"I","N","S","E","R","T">>,
    <<"K","A","Y","D","E","T">>,
    <<"Y","A","Z">>,
    <<"O","L","U",BigS,"T","U","R">>,
    <<"C","R","E","A","T","E">>,
    <<"Y","A","P">>,
    <<"D","R","O","P">>,
    <<"D",BigU,BigS,BigU,"R">> >>

REFUSAL == "Uzgunum, sadece veri sorgulama islemlerini destekliyorum. Veri ekleme, guncelleme veya silme islemleri yapamam. Baska nasil yardimci olabilirim?"
MSG_AMBIGUOUS == "? Sorunuz biraz belirsiz. {clarification}"
MSG_IRRELEVANT == "Sanirim sorunuzu tam anlayamadim. Sunu mu sormak istediniz: '{suggestion}'? Veya bu konuda size nasil yardimci olabilirim?"
MSG_NOT_AVAILABLE == "Bu veritabaninda istenen bilgi bulunamadi: {error_msg}"
DETAIL_EMPTY_QUESTION == "Soru bos olamaz."
DETAIL_NO_DATABASE == "Uygun veritabani bulunamadi."
DETAIL_NO_SCHEMA == "Veritabani semasi bulunamadi: {db_name}"
DETAIL_SERVER_ERROR == "Sunucu hatasi: {e}"

\* the exceptions that reach the handler's "except Exception"
EXC_INDEX == <<"l","i","s","t"," ","i","n","d","e","x"," ","o","u","t"," ","o","f"," ","r","a","n","g","e">>
EXC_LLM == <<"L","L","M"," ","g","e","n","e","r","a","t","i","o","n"," ","f","a","i","l","e","d">>
EXC_SEARCH == <<"s","e","a","r","c","h"," ","f","a","i","l","e","d">>

\* what the handler returns: a ChatResponse, or an HTTPException
NoOutcome ==
    [kind |-> "none", status |-> 0, success |-> FALSE, database |-> <<>>,
     sql |-> <<>>, columns |-> <<>>, rows |-> <<>>, row_count |-> 0,
     explanation |-> <<>>, confidence_score |-> 0, error |-> NoMsg]

HTTPException(status_code, detail) ==
    [NoOutcome EXCEPT !.kind = "HTTPException", !.status = status_code,
                      !.error = detail]

ChatFailure(db_name, sql, confidence, error) ==
    [NoOutcome EXCEPT !.kind = "ChatResponse", !.status = 200,
                      !.database = db_name, !.sql = sql,
                      !.confidence_score = confidence, !.error = error]

ChatSuccess(db_name, sql, r, explanation, confidence) ==
    [NoOutcome EXCEPT !.kind = "ChatResponse", !.status = 200,
                      !.success = TRUE, !.database = db_name, !.sql = sql,
                      !.columns = r.columns, !.rows = r.rows,
                      !.row_count = r.row_count,
                      !.explanation = explanation,
                      !.confidence_score = confidence]

\* keyword in question_upper, for some keyword of modification_keywords
HasModificationKeyword(question_upper) ==
    \E k \in DOMAIN modification_keywords :
        Contains(question_upper, modification_keywords[k])

\* equality where the prefix test belongs
IsSentinel_exact(sql, tag) == sql = tag

\* sql.startswith(tag)
IsSentinel(sql, tag) == StartsWith(sql, tag)

\* sql.replace(tag + ":", "").strip()
SentinelText(sql, tag) == Strip(Replace(sql, tag \o <<":">>, <<>>))

\* the validator's verdict ignored
IsRejected_never(v) == FALSE

\* "if not is_valid": the request ends at the validator
IsRejected(v) == ~v.is_valid

Call(op, sql, ok) == [op |-> op, sql |-> sql, ok |-> ok]

----------------------------------------------------------------------------
(* The requests the model runs                                             *)

\* the longest model response, in lines
MaxLines == 2

ResponseLines == {
    <<"V","E","R","I","T","A","B","A","N","I",":"," ","a","b">>,
    <<"S","Q","L",":"," ",Backtick,"S","E","L","E","C","T"," ","x"," ","F","R","O","M"," ","t",Backtick>>,
    <<"B","E","L","I","R","S","I","Z",":"," ","x","?">>,
    <<"A","L","A","K","A","S","I","Z",":"," ","y">>,
    <<"V","E","R","I","_","Y","O","K",":"," ","z">>,
    <<"S","Q","L",":"," ","V","E","R","I","_","Y","O","K",":"," ","z">>,
    <<"S","E","L","E","C","T"," ","x">>,
    <<"F","R","O","M"," ","t",";">>,
    <<"S","Q","L",":"," ","D","R","O","P"," ","T","A","B","L","E"," ","t">>,
    <<"V","e","r","i","t","a","b","a","n",NoDotI,":"," ","'","A","'">>,
    <<"S","Q","L",":"," ","s","q","l"," ","s","e","l","e","c","t"," ","1"," ","-","-"," ","n">> }

\* every text of at most n lines
RECURSIVE ComposeLines(_)
ComposeLines(n) ==
    IF n = 0 THEN {<<>>}
    ELSE LET prev == ComposeLines(n - 1)
         IN  prev \cup ResponseLines
             \cup {p \o <<"\n">> \o l : p \in prev \ {<<>>}, l \in ResponseLines}

Responses == ComposeLines(MaxLines)

Questions == {
    <<"d","e","l","e","t","e"," ","a","l","l"," ","r","o","w","s">>,
    <<"D","e","l","e","t","e"," ","x">>,
    <<"k","a","y",NoDotI,"t","l","a","r",NoDotI," ","s","i","l">>,
    <<"S",DotI,"L">>,
    <<"s","a","t",NoDotI,"r"," ","e","k","l","e">>,
    <<"T","a","b","l","o"," ","O","l","u",SmallS,"t","u","r">>,
    <<"g",SmallU,"n","c","e","l","l","e">>,
    <<"d","r","o","p">>,
    <<"k","a",SmallC," ","x"," ","v","a","r">>,
    <<>>,
    <<" "," ">> }

DbNames == { <<"a">>, <<"a","b">> }

Catalogs == { {}, {<<"a">>}, DbNames }

Similarities == {40, 90}

\* the orderings of a set of names
RECURSIVE Orderings(_)
Orderings(names) ==
    IF names = {} THEN {<<>>}
    ELSE UNION {{<<n>> \o rest : rest \in Orderings(names \ {n})} : n \in names}

\* collection.query: the top_k nearest entries, nearest first
SearchResults(entries, top_k) ==
    LET n == Min(top_k, Cardinality(entries))
    IN  {[i \in 1..n |-> [name |-> names[i], similarity |-> sims[i]]] :
            names \in {SubSeq(o, 1, n) : o \in Orderings(entries)},
            sims \in {s \in [1..n -> Similarities] :
                        \A i, j \in DOMAIN s : i <= j => s[i] >= s[j]}}

----------------------------------------------------------------------------
(* routes/chat.py: the handler of POST /chat, one action per stage         *)

NoSelection == [selected |-> [name |-> <<>>, similarity |-> 0],
                sql |-> <<>>, db_name |-> <<>>]

NoExecution == ExecFailure(NoMsg, <<>>)

\* the collection of the index: whether it exists, and the ids it holds
Collection(exists, ids) == [exists |-> exists, ids |-> ids]

\* what the writer of the index is doing: the operation, the catalog it
\* indexes, the collection it found, whether the count could be read and
\* whether it rebuilds
Operation(op, schemas, before, readable, rebuilt) ==
    [op |-> op, schemas |-> schemas, before |-> before,
     readable |-> readable, rebuilt |-> rebuilt]

NoOperation == Operation("none", {}, Collection(TRUE, {}), TRUE, FALSE)

\* what a reader observed: the candidates of a search or the entry count,
\* or that the read raised; with the writer's step at that moment and the
\* ids of the index before and after the writer's operation
Observation(kind, failed, found, count, during, old, new) ==
    [kind |-> kind, failed |-> failed, found |-> found, count |-> count,
     during |-> during, old |-> old, new |-> new]

NoObservation == Observation("none", FALSE, <<>>, 0, "idle", {}, {})

\* no operation on the index under way
IndexIdle ==
    /\ ipc = "idle"
    /\ iop = NoOperation
    /\ store = Collection(TRUE, {})
    /\ builds = 0
    /\ lastread = NoObservation

\* no operation on the schema cache under way
CacheIdle ==
    /\ kpc = "idle"
    /\ kschemas = <<>>
    /\ kfile = <<>>
    /\ kloaded = <<>>

\* no call of select_database_and_generate_sql under way
SelectIdle ==
    /\ spc = "idle"
    /\ stext = <<>>
    /\ scands = <<>>
    /\ sres = NoSelection

OtherIdle == IndexIdle /\ CacheIdle /\ SelectIdle

Init ==
    /\ pc = "start"
    /\ question \in Questions
    /\ catalog \in Catalogs
    /\ collection \in {{}, catalog}
    /\ candidates = <<>>
    /\ response = <<>>
    /\ result = NoSelection
    /\ exec_result = NoExecution
    /\ calls = <<>>
    /\ out = NoOutcome
    /\ vpc = "idle"
    /\ vsql = <<>>
    /\ vres = Verdict(FALSE, NoMsg)
    /\ ExecutorIdle
    /\ ScoreIdle
    /\ OtherIdle

\* the empty-question check and the screen for modification keywords
ChatScreen ==
    /\ pc = "start"
    /\ LET q == Strip(question) IN
       IF q = <<>>
       THEN /\ out' = HTTPException(400, Msg(DETAIL_EMPTY_QUESTION, <<>>))
            /\ pc' = "done"
       ELSE IF HasModificationKeyword(Upper(q))
       THEN /\ out' = ChatFailure(<<>>, <<>>, 0, Msg(REFUSAL, <<>>))
            /\ pc' = "done"
       ELSE /\ out' = out
            /\ pc' = "retrieve"
    /\ UNCHANGED <<question, catalog, collection, candidates, response,
                   result, exec_result, calls, validatorVars, executorVars, scoreVars,
                   otherVars>>

\* ensure_index_built(), get_schemas() and indexer.search(question, top_k)
ChatRetrieve ==
    /\ pc = "retrieve"
    /\ collection' = IF collection = {} THEN catalog ELSE collection
    /\ \E found \in SearchResults(collection', TOP_K_CANDIDATES) \cup {EXC_SEARCH} :
         /\ calls' = calls \o << Call("ensure_index_built", <<>>, TRUE),
                                Call("search", Strip(question),
                                     found # EXC_SEARCH) >>
         /\ IF found = EXC_SEARCH
            THEN /\ out' = HTTPException(500, Msg(DETAIL_SERVER_ERROR, EXC_SEARCH))
                 /\ pc' = "done"
                 /\ candidates' = candidates
            ELSE IF found = <<>>
            THEN \* candidates[0] in the print raises before "if not candidates"
                 /\ out' = HTTPException(500, Msg(DETAIL_SERVER_ERROR, EXC_INDEX))
                 /\ pc' = "done"
                 /\ candidates' = found
            ELSE /\ out' = out
                 /\ pc' = "select"
                 /\ candidates' = found
    /\ UNCHANGED <<question, catalog, response, result, exec_result,
                   validatorVars, executorVars, scoreVars,
                   otherVars>>

\* the model called once more after it failed
AfterLlmError_retry == "select"

\* where the handler goes when the model call raised: "except Exception"
\* ends the request
AfterLlmError == "done"

\* llm.select_database_and_generate_sql(question, candidates, schemas) and
\* the lookup of the selected schema
ChatSelect ==
    /\ pc = "select"
    /\ \E text \in Responses \cup {EXC_LLM} :
         /\ calls' = Append(calls, Call("generate", <<>>, text # EXC_LLM))
         /\ IF text = EXC_LLM
            THEN /\ out' = HTTPException(500, Msg(DETAIL_SERVER_ERROR, EXC_LLM))
                 /\ pc' = AfterLlmError
                 /\ UNCHANGED <<response, result>>
            ELSE /\ response' = generate(text)
                 /\ result' = select_database_and_generate_sql(response', candidates)
                 /\ IF result'.db_name \notin catalog
                    THEN /\ out' = HTTPException(400, Msg(DETAIL_NO_SCHEMA,
                                                          result'.db_name))
                         /\ pc' = "done"
                    ELSE /\ out' = out
                         /\ pc' = "routed"
    /\ UNCHANGED <<question, catalog, collection, candidates, exec_result,
                   validatorVars, executorVars, scoreVars,
                   otherVars>>

\* a sentinel scored as if its query had been valid
SentinelFailure_valid(text, arg) ==
    ChatFailure(result.db_name, <<>>,
                calculate_confidence_score(result.selected.similarity,
                                           TRUE, FALSE, 0),
                Msg(text, arg))

\* the failure response of a sentinel outcome
SentinelFailure(text, arg) ==
    ChatFailure(result.db_name, <<>>,
                calculate_confidence_score(result.selected.similarity,
                                           FALSE, FALSE, 0),
                Msg(text, arg))

\* the three sentinel checks on the selector's sql
ChatRoute ==
    /\ pc = "routed"
    /\ IF IsSentinel(result.sql, BELIRSIZ)
       THEN /\ out' = SentinelFailure(MSG_AMBIGUOUS,
                                      SentinelText(result.sql, BELIRSIZ))
            /\ pc' = "done"
       ELSE IF IsSentinel(result.sql, ALAKASIZ)
       THEN /\ out' = SentinelFailure(MSG_IRRELEVANT,
                                      SentinelText(result.sql, ALAKASIZ))
            /\ pc' = "done"
       ELSE IF IsSentinel(result.sql, VERI_YOK)
       THEN /\ out' = SentinelFailure(MSG_NOT_AVAILABLE,
                                      SentinelText(result.sql, VERI_YOK))
            /\ pc' = "done"
       ELSE /\ out' = out
            /\ pc' = "validate"
    /\ UNCHANGED <<question, catalog, collection, candidates, response,
                   result, exec_result, calls, validatorVars, executorVars, scoreVars,
                   otherVars>>

\* is_valid, error = validate_sql(sql)
ChatValidate ==
    /\ pc = "validate"
    /\ \E v \in {validate_sql(result.sql)} :
       /\ calls' = Append(calls, Call("validate_sql", result.sql, v.is_valid))
       /\ IF IsRejected(v)
          THEN /\ out' = ChatFailure(result.db_name, result.sql,
                            calculate_confidence_score(
                                result.selected.similarity, FALSE, FALSE, 0),
                            v.reason)
               /\ pc' = "done"
          ELSE /\ out' = out
               /\ pc' = "execute"
    /\ UNCHANGED <<question, catalog, collection, candidates, response,
                   result, exec_result, validatorVars, executorVars, scoreVars,
                   otherVars>>

\* exec_result = executor.execute(schema.path, sql)
ChatExecute ==
    /\ pc = "execute"
    /\ \E v \in {validate_sql(result.sql)} :
       \E exists \in BOOLEAN, dbout \in DbOutcomes :
         \E r \in {execute_validated(v, result.db_name, exists, dbout)} :
         /\ exec_result' = r
         /\ calls' = Append(calls, Call("execute", result.sql, r.success))
         /\ IF ~r.success
            THEN /\ out' = ChatFailure(result.db_name, result.sql,
                              calculate_confidence_score(
                                  result.selected.similarity, TRUE, FALSE, 0),
                              r.error)
                 /\ pc' = "done"
            ELSE /\ out' = out
                 /\ pc' = "explain"
    /\ UNCHANGED <<question, catalog, collection, candidates, response,
                   result, validatorVars, executorVars, scoreVars,
                   otherVars>>

Explanations == { <<"o","k">>, <<>> }

\* llm.generate_explanation(...) and the success response
ChatExplain ==
    /\ pc = "explain"
    /\ \E text \in Explanations \cup {EXC_LLM} :
         /\ calls' = Append(calls, Call("generate_explanation", result.sql,
                                        text # EXC_LLM))
         /\ IF text = EXC_LLM
            THEN out' = HTTPException(500, Msg(DETAIL_SERVER_ERROR, EXC_LLM))
            ELSE out' = ChatSuccess(result.db_name, result.sql, exec_result,
                           Strip(text),
                           calculate_confidence_score(
                               result.selected.similarity, TRUE, TRUE,
                               exec_result.row_count))
    /\ pc' = "done"
    /\ UNCHANGED <<question, catalog, collection, candidates, response,
                   result, exec_result, validatorVars, executorVars, scoreVars,
                   otherVars>>

Next ==
    \/ ChatScreen
    \/ ChatRetrieve
    \/ ChatSelect
    \/ ChatRoute
    \/ ChatValidate
    \/ ChatExecute
    \/ ChatExplain

Spec == Init /\ [][Next]_vars

----------------------------------------------------------------------------
(* The validator applied to bounded inputs                                 *)

\* the longest query composed, in fragments
MaxFrags == 4

Fragments == {
    <<"S","E","L","E","C","T">>, <<"s","e","l","e","c","t">>, <<"D","R","O","P">>,
    <<" ">>, <<"\n">>, <<";">>, <<"-","-">>, <<"/","*">>, <<"*","/">>, <<"x">> }

\* every concatenation of at most n fragments
RECURSIVE Compose(_)
Compose(n) ==
    IF n = 0 THEN {<<>>}
    ELSE LET prev == Compose(n - 1)
         IN  prev \cup {p \o f : p \in prev, f \in Fragments}

\* a keyword in upper case, lower case, capitalised, and in the lower case
\* of a Turkish keyboard (dotless i for I)
LetterCases == {"upper", "lower", "title", "turkish"}

InCase(word, c) ==
    [i \in 1..Len(word) |->
        IF c = "upper" \/ (c = "title" /\ i = 1) THEN word[i]
        ELSE IF c = "turkish" /\ word[i] = "I" THEN NoDotI
        ELSE LowerMap[word[i]][1]]

KeywordPrefixes == { <<"S","E","L","E","C","T"," ">>, <<"s","e","l","e","c","t","\n">>, <<"S","E","L","E","C","T"," ","*"," ","F","R","O","M"," ","t"," ","W","H","E","R","E"," ","a"," ","="," ","(">>, <<"S","E","L","E","C","T"," ","x">>, <<"S","E","L","E","C","T"," ","a"," ","F","R","O","M"," ","t",";">>, <<>> }
KeywordSuffixes == { <<>>, <<" ">>, <<";">>, <<")">>, <<" ","x">>, <<"_">>, <<"1">> }

KeywordQueries ==
    {pre \o InCase(DANGEROUS_KEYWORDS[k], c) \o post :
        pre \in KeywordPrefixes, post \in KeywordSuffixes,
        k \in DOMAIN DANGEROUS_KEYWORDS, c \in LetterCases}

\* queries that reach the remaining patterns of INJECTION_PATTERNS
PatternQueries == {
    <<"S","E","L","E","C","T"," ","@","@","v","e","r","s","i","o","n">>,
    <<"S","E","L","E","C","T"," ","a"," ","F","R","O","M"," ","t"," ","U","N","I","O","N"," ","A","L","L"," ","S","E","L","E","C","T"," ","b"," ","F","R","O","M"," ","u">>,
    <<"S","E","L","E","C","T"," ","a"," ","F","R","O","M"," ","t"," ","U","N","I","O","N","\n","a","l","l"," "," ","s","e","l","e","c","t"," ","b"," ","F","R","O","M"," ","u">>,
    <<"S","E","L","E","C","T"," ","a"," ","F","R","O","M"," ","t"," ","W","H","E","R","E"," ","b"," ","="," ","2"," ","o","r"," ","1"," ","="," ","1">>,
    <<"S","E","L","E","C","T"," ","a"," ","F","R","O","M"," ","t"," ","W","H","E","R","E"," ","(","b",")"," ","="," ","(","2",")">>,
    <<"S","E","L","E","C","T"," ","*"," ","F","R","O","M"," ","t",";">> }

\* the two-statement example query
TwoStatementQuery == <<"S","E","L","E","C","T"," ","*"," ","F","R","O","M"," ","t",";"," ","D","R","O","P"," ","T","A","B","L","E"," ","t",";">>

ValidatorInputs ==
    Compose(MaxFrags) \cup KeywordQueries \cup PatternQueries
    \cup {test_cases[i].sql : i \in DOMAIN test_cases}
    \cup {TwoStatementQuery}

InitValidate ==
    /\ vpc = "input"
    /\ vsql \in ValidatorInputs
    /\ vres = Verdict(FALSE, NoMsg)
    /\ pc = "idle"
    /\ question = <<>>
    /\ catalog = {}
    /\ collection = {}
    /\ candidates = <<>>
    /\ response = <<>>
    /\ result = NoSelection
    /\ exec_result = NoExecution
    /\ calls = <<>>
    /\ out = NoOutcome
    /\ ExecutorIdle
    /\ ScoreIdle
    /\ OtherIdle

\* is_valid, error = validate_sql(sql)
ValidateSql ==
    /\ vpc = "input"
    /\ vres' = validate_sql(vsql)
    /\ vpc' = "done"
    /\ UNCHANGED <<vsql, chatVars, executorVars, scoreVars,
                   otherVars>>

NextValidate == ValidateSql

SpecValidate == InitValidate /\ [][NextValidate]_vars


----------------------------------------------------------------------------
(* SQLExecutor.execute applied to bounded inputs, the query run second by  *)
(* second                                                                  *)

\* no request under way
ChatIdle ==
    /\ pc = "idle"
    /\ question = <<>>
    /\ catalog = {}
    /\ collection = {}
    /\ candidates = <<>>
    /\ response = <<>>
    /\ result = NoSelection
    /\ exec_result = NoExecution
    /\ calls = <<>>
    /\ out = NoOutcome

\* no call of validate_sql under way
ValidatorIdle ==
    /\ vpc = "idle"
    /\ vsql = <<>>
    /\ vres = Verdict(FALSE, NoMsg)

\* the db_path argument
DbPath == <<"a",".","s","q","l","i","t","e">>

\* queries the validator accepts and queries it rejects, by each of its rules
ExecutorInputs == {
    <<"S","E","L","E","C","T"," ","1">>,
    <<"s","e","l","e","c","t"," ","a"," ","f","r","o","m"," ","t",";">>,
    <<"D","E","L","E","T","E"," ","F","R","O","M"," ","t">>,
    <<"S","E","L","E","C","T"," ","1",";"," ","D","R","O","P"," ","T","A","B","L","E"," ","t">>,
    <<>>,
    <<"S","E","L","E","C","T"," ","1"," ","-","-">>,
    <<"S","E","L","E","C","T"," ","a"," ","F","R","O","M"," ","t"," ","U","N","I","O","N"," ","S","E","L","E","C","T"," ","b"," ","F","R","O","M"," ","u">> }

\* what the database does with the query, and the seconds it takes
ExecutorQueries ==
    {[kind |-> o.kind, n |-> o.n, duration |-> d] :
        o \in DbOutcomes \ {DbTimeout}, d \in 0..(timeout_seconds + 1)}

InitExecute ==
    /\ xpc = "call"
    /\ xsql \in ExecutorInputs
    /\ xexists \in BOOLEAN
    /\ xsigalrm \in BOOLEAN
    /\ xquery \in ExecutorQueries
    /\ xelapsed = 0
    /\ xconn = "none"
    /\ xres = ExecFailure(NoMsg, <<>>)
    /\ ChatIdle
    /\ ValidatorIdle
    /\ ScoreIdle
    /\ OtherIdle

\* conn.close() is reached on the success path alone; on the three except
\* paths the connection is left to the runtime, which has finalized it by
\* the time execute returns or has not
LeftToRuntime == {"open", "closed"}

\* execute up to sqlite3.connect: the validation (vres is the verdict it
\* got), the check of the file and the connection, with the alarm set where
\* the platform has SIGALRM
ExecuteCall ==
    /\ xpc = "call"
    /\ vpc' = "done"
    /\ vsql' = xsql
    /\ vres' = validate_sql(xsql)
    /\ \E r \in {execute_validated(vres', DbPath, xexists, DbRows(0))} :
         IF Connected(r)
         THEN /\ xconn' = "open"
              /\ xpc' = "running"
              /\ xres' = xres
         ELSE /\ xconn' = xconn
              /\ xpc' = "returned"
              /\ xres' = r
    /\ UNCHANGED <<xsql, xexists, xsigalrm, xquery, xelapsed, chatVars,
                   scoreVars,
                   otherVars>>

\* a second passes with cursor.execute / fetchmany still at work
QueryTick ==
    /\ xpc = "running"
    /\ xelapsed < xquery.duration
    /\ xsigalrm => xelapsed < timeout_seconds
    /\ xelapsed' = xelapsed + 1
    /\ UNCHANGED <<xpc, xsql, xexists, xsigalrm, xquery, xconn, xres,
                   chatVars, validatorVars, scoreVars,
                   otherVars>>

\* timeout_handler: SIGALRM arrives after timeout_seconds and raises
\* TimeoutError into the with block
AlarmFires ==
    /\ xpc = "running"
    /\ xsigalrm
    /\ xelapsed = timeout_seconds
    /\ xelapsed < xquery.duration
    /\ xres' = execute_validated(vres, DbPath, xexists, DbTimeout)
    /\ xconn' \in LeftToRuntime
    /\ xpc' = "returned"
    /\ UNCHANGED <<xsql, xexists, xsigalrm, xquery, xelapsed, chatVars,
                   validatorVars, scoreVars,
                   otherVars>>

\* the database is done with the query: the rows are fetched and the result
\* returned, or the exception it raised is turned into a failure
QueryEnds ==
    /\ xpc = "running"
    /\ xelapsed = xquery.duration
    /\ \E r \in {execute_validated(vres, DbPath, xexists,
                                   [kind |-> xquery.kind, n |-> xquery.n])} :
         /\ xres' = r
         /\ xconn' \in IF r.success THEN {"closed"} ELSE LeftToRuntime
    /\ xpc' = "returned"
    /\ UNCHANGED <<xsql, xexists, xsigalrm, xquery, xelapsed, chatVars,
                   validatorVars, scoreVars,
                   otherVars>>

NextExecute ==
    \/ ExecuteCall
    \/ QueryTick
    \/ AlarmFires
    \/ QueryEnds

SpecExecute == InitExecute /\ [][NextExecute]_vars

----------------------------------------------------------------------------
(* calculate_confidence_score applied to bounded inputs                    *)

\* how far outside [0, 1] the similarity argument ranges, in hundredths
MaxDeviation == 60

SimilarityValues == (0 - MaxDeviation)..(100 + MaxDeviation)

ScoreInputs ==
    [similarity : SimilarityValues, sql_valid : BOOLEAN,
     execution_success : BOOLEAN, row_count : 0..max_rows]

InitScore ==
    /\ cpc = "input"
    /\ cargs \in ScoreInputs
    /\ cscore = 0
    /\ ChatIdle
    /\ ValidatorIdle
    /\ ExecutorIdle
    /\ OtherIdle

\* confidence = calculate_confidence_score(similarity, sql_valid,
\*                                         execution_success, row_count)
CalculateScore ==
    /\ cpc = "input"
    /\ cscore' = calculate_confidence_score(cargs.similarity, cargs.sql_valid,
                                            cargs.execution_success,
                                            cargs.row_count)
    /\ cpc' = "done"
    /\ UNCHANGED <<cargs, chatVars, validatorVars, executorVars,
                   otherVars>>

NextScore == CalculateScore

SpecScore == InitScore /\ [][NextScore]_vars

----------------------------------------------------------------------------
(* indexing/schema_indexer.py: the writer of the index (build_index,       *)
(* ensure_index_built), step by step, and a reader beside it               *)

\* the operations of the writer in one run
MaxBuilds == 2

\* the collection left in place
delete_collection_skipped(s) == s

\* self.client.delete_collection(COLLECTION_NAME), a failure passed over
delete_collection(s) == Collection(FALSE, {})

\* self.client.create_collection(name=COLLECTION_NAME, ...)
create_collection(s) == Collection(TRUE, s.ids)

\* self.collection.add(ids=ids, ...)
add(s, ids) == Collection(TRUE, s.ids \cup ids)

\* a populated index taken to be missing
is_indexed_never(s, readable) == FALSE

\* is_indexed: count > 0, and False when the count raises
is_indexed(s, readable) == readable /\ Cardinality(s.ids) > 0

\* the cosine distances the index reports, in hundredths (0 to 200)
Distances == {10, 60, 150}

\* one entry of the list search returns
Candidate(name, distance) ==
    [name |-> name, distance |-> distance, similarity |-> 100 - distance]

\* search: the top_k nearest entries of the collection, nearest first
search(s, top_k) ==
    LET n == Min(top_k, Cardinality(s.ids))
    IN  UNION {{[i \in 1..n |-> Candidate(o[i], d[o[i]])] :
                    d \in {e \in [s.ids -> Distances] :
                            \A i, j \in 1..Cardinality(s.ids) :
                                i <= j => e[o[i]] <= e[o[j]]}} :
               o \in Orderings(s.ids)}

IndexCatalogs == SUBSET DbNames

InitIndex ==
    /\ ipc = "idle"
    /\ iop = NoOperation
    /\ store \in {Collection(TRUE, ids) : ids \in IndexCatalogs}
    /\ builds = 0
    /\ lastread = NoObservation
    /\ ChatIdle
    /\ ValidatorIdle
    /\ ExecutorIdle
    /\ ScoreIdle
    /\ CacheIdle
    /\ SelectIdle

\* build_index(schemas) is called
BuildIndex ==
    /\ ipc = "idle"
    /\ builds < MaxBuilds
    /\ \E schemas \in IndexCatalogs :
         iop' = Operation("build_index", schemas, store, TRUE, TRUE)
    /\ ipc' = "delete"
    /\ UNCHANGED <<store, builds, lastread, chatVars, validatorVars,
                   executorVars, scoreVars, cacheVars, selectVars>>

\* ensure_index_built(): is_indexed(), and build_index(get_schemas()) when
\* it is false
EnsureIndexBuilt ==
    /\ ipc = "idle"
    /\ builds < MaxBuilds
    /\ \E schemas \in IndexCatalogs, readable \in BOOLEAN :
         IF is_indexed(store, readable)
         THEN /\ iop' = Operation("ensure_index_built", schemas, store,
                                  readable, FALSE)
              /\ ipc' = "idle"
              /\ builds' = builds + 1
         ELSE /\ iop' = Operation("ensure_index_built", schemas, store,
                                  readable, TRUE)
              /\ ipc' = "delete"
              /\ builds' = builds
    /\ UNCHANGED <<store, lastread, chatVars, validatorVars, executorVars,
                   scoreVars, cacheVars, selectVars>>

\* build_index: "Clear existing collection"
DeleteCollection ==
    /\ ipc = "delete"
    /\ store' = delete_collection(store)
    /\ ipc' = "create"
    /\ UNCHANGED <<iop, builds, lastread, chatVars, validatorVars,
                   executorVars, scoreVars, cacheVars, selectVars>>

\* build_index: the new, empty collection
CreateCollection ==
    /\ ipc = "create"
    /\ store' = create_collection(store)
    /\ ipc' = "add"
    /\ UNCHANGED <<iop, builds, lastread, chatVars, validatorVars,
                   executorVars, scoreVars, cacheVars, selectVars>>

\* build_index: the embeddings are computed and the entries added, one per
\* key of schemas
AddEntries ==
    /\ ipc = "add"
    /\ store' = add(store, iop.schemas)
    /\ ipc' = "idle"
    /\ builds' = builds + 1
    /\ UNCHANGED <<iop, lastread, chatVars, validatorVars, executorVars,
                   scoreVars, cacheVars, selectVars>>

\* a reader calls search(query, top_k) while the writer is where it is
Search ==
    /\ \E found \in IF store.exists THEN search(store, TOP_K_CANDIDATES)
                    ELSE {<<>>} :
         lastread' = Observation("search", ~store.exists, found, 0, ipc,
                                 iop.before.ids, iop.schemas)
    /\ UNCHANGED <<ipc, iop, store, builds, chatVars, validatorVars,
                   executorVars, scoreVars, cacheVars, selectVars>>

\* a reader calls collection.count()
Count ==
    /\ lastread' = Observation("count", ~store.exists, <<>>,
                               Cardinality(store.ids), ipc,
                               iop.before.ids, iop.schemas)
    /\ UNCHANGED <<ipc, iop, store, builds, chatVars, validatorVars,
                   executorVars, scoreVars, cacheVars, selectVars>>

NextIndex ==
    \/ BuildIndex
    \/ EnsureIndexBuilt
    \/ DeleteCollection
    \/ CreateCollection
    \/ AddEntries
    \/ Search
    \/ Count

SpecIndex == InitIndex /\ [][NextIndex]_vars

----------------------------------------------------------------------------
(* Properties of the validator                                             *)

\* the ways a keyword letter may be written: itself and its lower case,
\* which on a Turkish keyboard is "i" for the dotted capital I and the
\* dotless i for "I"
CaseVariants(K) ==
    IF K = DotI THEN {DotI, "i"}
    ELSE IF K = "I" THEN {"I", "i", NoDotI}
    ELSE {K, LowerMap[K][1]}

\* word stands at position i of q in some letter case, with no letter, digit
\* or underscore next to it
WholeWordAt(q, i, word) ==
    /\ i >= 1
    /\ i + Len(word) - 1 <= Len(q)
    /\ \A j \in 1..Len(word) : q[i + j - 1] \in CaseVariants(word[j])
    /\ ~IsWordAt(q, i - 1)
    /\ ~IsWordAt(q, i + Len(word))

ContainsDeniedWord(q) ==
    \E k \in DOMAIN DANGEROUS_KEYWORDS :
        \E i \in 1..Len(q) : WholeWordAt(q, i, DANGEROUS_KEYWORDS[k])

\* C2: every query that contains a denylisted keyword as a whole word, in
\* any letter case and with any surrounding whitespace, is rejected.
C2_DeniedKeywordRejected ==
    (vpc = "done" /\ ContainsDeniedWord(vsql)) => ~vres.is_valid

\* a lower-case keyword behind a SELECT was rejected by the keyword rule
C2_Witness ==
    /\ vpc = "done"
    /\ vsql = <<"S","E","L","E","C","T"," ","*"," ","F","R","O","M"," ","t"," ","W","H","E","R","E"," ","a"," ","="," ","(","d","r","o","p",")">>
    /\ vres = Verdict(FALSE, Msg(REASON_KEYWORD, <<"D","R","O","P">>))

\* C3: every query whose trimmed, upper-cased text does not start with
\* SELECT (the empty and the whitespace-only query included) is rejected
\* with a non-empty reason.
C3_NonSelectRejected ==
    (vpc = "done" /\ ~StartsWith(Upper(Strip(vsql)), SELECT))
        => (~vres.is_valid /\ vres.reason.text # "")

\* a non-empty query that is not a SELECT was rejected for that reason
C3_Witness ==
    /\ vpc = "done"
    /\ Strip(vsql) # <<>>
    /\ ~StartsWith(Upper(Strip(vsql)), SELECT)
    /\ vres = Verdict(FALSE, Msg(REASON_NOT_SELECT, <<>>))

\* C4 as stated: the two-statement query is rejected with the
\* multiple-statements reason.
C4_MultipleStatementsReason ==
    (vpc = "done" /\ vsql = TwoStatementQuery)
        => (~vres.is_valid /\ vres.reason.text = REASON_MULTIPLE)

\* C4 (amended): the two-statement query is rejected, and the reason is the
\* denylisted-keyword reason naming DROP, the keyword rule being applied
\* before the multiple-statements rule.
C4_KeywordReasonFirst ==
    (vpc = "done" /\ vsql = TwoStatementQuery)
        => vres = Verdict(FALSE, Msg(REASON_KEYWORD, <<"D","R","O","P">>))

C4_Witness ==
    /\ vpc = "done"
    /\ vsql = TwoStatementQuery
    /\ ~vres.is_valid
    /\ HasMultipleStatements(vsql)

\* C5: one trailing terminator is tolerated: a query without ";" gets the
\* same verdict with a ";" appended, and a query that still contains a ";"
\* after one trailing ";" is stripped is rejected.
C5_TrailingTerminatorTolerated ==
    vpc = "done" =>
        /\ ~Contains(vsql, <<";">>)
            => validate_sql(vsql \o <<";">>).is_valid = vres.is_valid
        /\ Contains(sql_trimmed(vsql), <<";">>) => ~vres.is_valid

\* q ends with a line comment: a "--" marker followed by comment text up to
\* the end of q
EndsWithLineComment(q) ==
    \E i \in 1..Len(q) :
        /\ HasAt(q, i, <<"-","-">>)
        /\ \A j \in (i + 2)..Len(q) : q[j] # "\n"
        /\ \E j \in (i + 2)..Len(q) : q[j] \notin Whitespace

\* C6: every SELECT query that ends with a line comment is rejected.
C6_TrailingLineCommentRejected ==
    (/\ vpc = "done"
     /\ StartsWith(Upper(Strip(vsql)), SELECT)
     /\ EndsWithLineComment(vsql)) => ~vres.is_valid

\* q contains a block comment, on one line or across lines
ContainsBlockComment(q) ==
    \E i \in 1..Len(q) : \E j \in (i + 2)..Len(q) :
        HasAt(q, i, <<"/","*">>) /\ HasAt(q, j, <<"*","/">>)

\* C7: every SELECT query that contains a block comment is rejected.
C7_BlockCommentRejected ==
    (/\ vpc = "done"
     /\ StartsWith(Upper(Strip(vsql)), SELECT)
     /\ ContainsBlockComment(vsql)) => ~vres.is_valid


----------------------------------------------------------------------------
(* Properties of the chat pipeline                                         *)

HasCall(ops) == \E i \in DOMAIN calls : calls[i].op \in ops

\* C1: execute is invoked only after validate_sql accepted the very same
\* query string in the request; a query validate_sql rejects ends the
\* request as a failure carrying the validator's reason and reaches no
\* database.
C1_ExecuteOnlyAfterAccepted ==
    /\ \A i \in DOMAIN calls :
         calls[i].op = "execute" =>
            \E j \in 1..(i - 1) : /\ calls[j].op = "validate_sql"
                                  /\ calls[j].sql = calls[i].sql
                                  /\ calls[j].ok
    /\ \A j \in DOMAIN calls :
         (calls[j].op = "validate_sql" /\ ~calls[j].ok) =>
            /\ pc = "done"
            /\ out.kind = "ChatResponse"
            /\ ~out.success
            /\ out.error = validate_sql(calls[j].sql).reason
            /\ out.error.text # ""
            /\ ~HasCall({"execute"})
            /\ exec_result.events = <<>>

\* a validated query was handed to the executor and reached the database
C1_Witness ==
    /\ HasCall({"execute"})
    /\ \E i \in DOMAIN exec_result.events : exec_result.events[i] = "connect"

\* q mentions a modification keyword, written in any letter case
MentionsModification(q) ==
    \E k \in DOMAIN modification_keywords :
        \E i \in 1..Len(q) :
            /\ i + Len(modification_keywords[k]) - 1 <= Len(q)
            /\ \A j \in 1..Len(modification_keywords[k]) :
                 q[i + j - 1] \in CaseVariants(modification_keywords[k][j])

\* C8: a question that contains a modification keyword, in any letter case,
\* is answered at once with success = False, the fixed refusal message and
\* confidence 0, and no index, retrieval, generation or execution call.
C8_ModificationRefused ==
    (pc \notin {"idle", "start"} /\ MentionsModification(question)) =>
        /\ pc = "done"
        /\ out = ChatFailure(<<>>, <<>>, 0, Msg(REFUSAL, <<>>))
        /\ calls = <<>>

\* the message chat reports for the sentinel the selector's sql starts with
SentinelMessage(sql) ==
    IF StartsWith(sql, BELIRSIZ) THEN MSG_AMBIGUOUS
    ELSE IF StartsWith(sql, ALAKASIZ) THEN MSG_IRRELEVANT
    ELSE IF StartsWith(sql, VERI_YOK) THEN MSG_NOT_AVAILABLE
    ELSE ""

C10_DataNotAvailable ==
    (/\ result # NoSelection
     /\ StartsWith(response, VERI_YOK \o <<":">>)
     /\ ~Contains(Upper(response), BELIRSIZ)
     /\ ~Contains(Upper(response), ALAKASIZ)) =>
        /\ StartsWith(result.sql, VERI_YOK)
        /\ pc = "done" => out.error.text = MSG_NOT_AVAILABLE

\* the search came back, and with no candidate
SearchFoundNothing ==
    /\ candidates = <<>>
    /\ \E i \in DOMAIN calls : calls[i].op = "search" /\ calls[i].ok

\* C11: when the search returns zero candidates the request ends with the
\* "no suitable database" failure, surfaced as a client error (status 400),
\* and no generation, validation or execution call is made.
C11_NoCandidatesIsClientError ==
    SearchFoundNothing =>
        /\ pc = "done"
        /\ out = HTTPException(400, Msg(DETAIL_NO_DATABASE, <<>>))
        /\ ~HasCall({"generate", "validate_sql", "execute",
                     "generate_explanation"})

----------------------------------------------------------------------------
(* Properties of the executor                                              *)

\* C12: execute validates its query argument itself: for every query that
\* validate_sql rejects it returns success = False with the validator's
\* reason as error, whether the database file exists or not, and opens no
\* connection.
C12_ExecuteRevalidates ==
    (xpc \in {"running", "returned"} /\ vsql = xsql /\ ~vres.is_valid) =>
        /\ xpc = "returned"
        /\ xconn = "none"
        /\ xpc = "returned" =>
            /\ ~xres.success
            /\ xres.error = vres.reason
            /\ xres.error.text # ""
            /\ ~Connected(xres)

\* a rejected query came back with the validator's reason although the
\* database file is there
C12_Witness ==
    /\ xpc = "returned"
    /\ xexists
    /\ xsql = <<"D","E","L","E","T","E"," ","F","R","O","M"," ","t">>
    /\ xres.error = Msg(REASON_NOT_SELECT, <<>>)
    /\ xconn = "none"

\* C13: for a valid query and a database path that does not exist, execute
\* returns a result with success = False, no columns, no rows, row_count 0
\* and a non-empty "not found" error; it raises nothing and opens no
\* connection.
C13_MissingDatabaseIsResult ==
    (xpc \in {"running", "returned"} /\ vres.is_valid /\ ~xexists) =>
        /\ xpc = "returned"
        /\ xconn = "none"
        /\ xpc = "returned" =>
            /\ ~xres.success
            /\ xres.columns = <<>>
            /\ xres.rows = <<>>
            /\ xres.row_count = 0
            /\ xres.error = Msg(ERR_DB_NOT_FOUND, DbPath)
            /\ xres.error.text # ""
            /\ ~Connected(xres)

\* a valid query on a missing file came back as a "not found" failure
C13_Witness ==
    /\ xpc = "returned"
    /\ ~xexists
    /\ vres.is_valid
    /\ xres.error.text = ERR_DB_NOT_FOUND

\* C14: a successful execution of a query whose result has n rows returns
\* min(n, max_rows) rows, row_count is the number of rows returned, and
\* has_more is set exactly when that number equals max_rows; more than
\* max_rows rows give max_rows rows with has_more set.
C14_RowsCapped ==
    (xpc = "returned" /\ xres.success) =>
        /\ Len(xres.rows) = (IF xquery.n <= max_rows THEN xquery.n ELSE max_rows)
        /\ xres.row_count = Len(xres.rows)
        /\ xres.has_more <=> (Len(xres.rows) = max_rows)
        /\ xquery.n > max_rows => (Len(xres.rows) = max_rows /\ xres.has_more)

\* a result larger than the cap came back cut to the cap and flagged
C14_Witness ==
    /\ xpc = "returned"
    /\ xres.success
    /\ xquery.n > max_rows
    /\ Len(xres.rows) = max_rows
    /\ xres.has_more

\* C15: a query still running when timeout_seconds have elapsed is aborted
\* and execute returns success = False with the "timed out" error; on no
\* platform is the caller blocked beyond the deadline.
C15_DeadlineAborts ==
    /\ xpc = "running" => xelapsed <= timeout_seconds
    /\ (xpc = "returned" /\ xconn # "none"
            /\ xquery.duration > timeout_seconds) =>
        /\ ~xres.success
        /\ xres.error = Msg(ERR_TIMEOUT, <<>>)

\* C16: a connection that execute has opened is closed by the time execute
\* returns, on every return path.
C16_ConnectionClosedOnReturn ==
    xpc = "returned" => xconn \in {"none", "closed"}

----------------------------------------------------------------------------
(* Properties of calculate_confidence_score                                *)

\* C19: calculate_confidence_score returns a value in [0, 100] and, with
\* sql_valid, execution_success and row_count held fixed, does not decrease
\* when similarity grows, similarities below 0 and above 1 included.
C19_ScoreBoundedAndMonotone ==
    cpc = "done" =>
        /\ cscore >= 0
        /\ cscore <= 1000
        /\ \A s \in SimilarityValues :
             s >= cargs.similarity =>
                calculate_confidence_score(s, cargs.sql_valid,
                    cargs.execution_success, cargs.row_count) >= cscore

\* a similarity above 1 was scored, and the score stayed at 100
C19_Witness ==
    /\ cpc = "done"
    /\ cargs.similarity > 100
    /\ cargs.sql_valid /\ cargs.execution_success /\ cargs.row_count > 0
    /\ cscore = 1000

----------------------------------------------------------------------------
(* Properties of the chat pipeline, continued                              *)

\* the call that generates the explanation was made and failed
ExplanationFailed ==
    \E i \in DOMAIN calls :
        calls[i].op = "generate_explanation" /\ ~calls[i].ok

\* C17: after a query was validated and executed successfully, a failure of
\* the explanation call does not fail the request: it still returns success
\* = True with the executed columns and rows and an empty explanation.
C17_ExplanationFailureDegrades ==
    (pc = "done" /\ ExplanationFailed) =>
        /\ out.kind = "ChatResponse"
        /\ out.success
        /\ out.columns = exec_result.columns
        /\ out.rows = exec_result.rows
        /\ out.explanation = <<>>

\* the last call of the handler
LastCall == calls[Len(calls)]

\* C18: every result of a non-success path, of execute (on the query of the
\* request and, for every query the selector hands over, whatever the
\* validator, the file system and the database do) and of the pipeline, has
\* success = False and a non-empty error; the pipeline returns success =
\* True only when the query passed validation and the execution succeeded,
\* and then with an empty error.
C18_FailuresCarryError ==
    /\ pc = "done" =>
        \/ /\ out.kind = "ChatResponse"
           /\ out.success
           /\ out.error = NoMsg
           /\ \E j \in DOMAIN calls : /\ calls[j].op = "validate_sql"
                                      /\ calls[j].sql = out.sql
                                      /\ calls[j].ok
           /\ \E j \in DOMAIN calls : /\ calls[j].op = "execute"
                                      /\ calls[j].sql = out.sql
                                      /\ calls[j].ok
           /\ exec_result.success
        \/ /\ ~out.success
           /\ out.error.text # ""
    /\ HasCall({"execute"}) =>
        \/ exec_result.success /\ exec_result.error = NoMsg
        \/ ~exec_result.success /\ exec_result.error.text # ""
    /\ pc = "validate" =>
        \A v \in {validate_sql(result.sql)} :
            \A exists \in BOOLEAN, dbout \in DbOutcomes :
                LET r == execute_validated(v, result.db_name, exists, dbout)
                IN  \/ r.success /\ r.error = NoMsg /\ v.is_valid
                    \/ ~r.success /\ r.error.text # ""
    /\ (pc = "done" /\ calls # <<>> /\ ~out.success) =>
        \/ out.kind = "HTTPException"
        \/ SentinelMessage(result.sql) # ""
        \/ LastCall.op \in {"validate_sql", "execute"} /\ ~LastCall.ok

\* an execution that failed ended the request with the executor's error
C18_Witness ==
    /\ pc = "done"
    /\ calls # <<>>
    /\ LastCall.op = "execute"
    /\ ~exec_result.success
    /\ out.kind = "ChatResponse"
    /\ ~out.success
    /\ out.error = exec_result.error
    /\ out.error.text = ERR_DATABASE

\* the fixed-weight formula: 50% similarity, 20% validity, 20% execution,
\* 10% result, in tenths of a point and clamped to [0, 100]
FixedWeight(similarity, valid, executed, rowCount) ==
    LET sum == 5 * similarity + (IF valid THEN 200 ELSE 0)
               + (IF executed THEN 200 ELSE 0)
               + (IF rowCount > 0 THEN 100 ELSE 50)
    IN  IF sum < 0 THEN 0 ELSE IF sum > 1000 THEN 1000 ELSE sum

\* C20: the confidence of a terminal outcome is the fixed-weight formula on
\* the selected candidate's similarity, with valid = executed = false and no
\* rows for a sentinel outcome and a validation failure, valid = true and
\* executed = false for an execution failure, and valid = executed = true
\* with the actual row count for a success.
C20_ConfidencePerOutcome ==
    (pc = "done" /\ out.kind = "ChatResponse" /\ result # NoSelection) =>
        LET s == result.selected.similarity IN
        IF SentinelMessage(result.sql) # ""
            THEN out.confidence_score = FixedWeight(s, FALSE, FALSE, 0)
        ELSE IF LastCall.op = "validate_sql"
            THEN out.confidence_score = FixedWeight(s, FALSE, FALSE, 0)
        ELSE IF LastCall.op = "execute"
            THEN out.confidence_score = FixedWeight(s, TRUE, FALSE, 0)
        ELSE /\ out.success
             /\ out.confidence_score
                    = FixedWeight(s, TRUE, TRUE, exec_result.row_count)

\* a success with rows on a candidate of similarity 0.90 scored 95
C20_Witness ==
    /\ pc = "done"
    /\ out.success
    /\ out.row_count = max_rows
    /\ result.selected.similarity = 90
    /\ out.confidence_score = 950

----------------------------------------------------------------------------
(* Properties of the chat pipeline: calls, selection                       *)

\* how many times the handler has called op
CallCount(op) == Cardinality({i \in DOMAIN calls : calls[i].op = op})

\* C21: within one request the retrieval call, the combined selection and
\* synthesis model call and the execution call are each made at most once,
\* the selection step issues exactly one model call, and a call that failed
\* is not repeated: the request ends with it.
C21_NoRetry ==
    /\ CallCount("search") <= 1
    /\ CallCount("generate") <= 1
    /\ CallCount("execute") <= 1
    /\ result # NoSelection => CallCount("generate") = 1
    /\ \A i \in DOMAIN calls :
         ~calls[i].ok => (i = Len(calls) /\ pc = "done")

\* the three calls were made once each, the execution failed and the
\* request ended there
C21_Witness ==
    /\ pc = "done"
    /\ CallCount("search") = 1
    /\ CallCount("generate") = 1
    /\ CallCount("execute") = 1
    /\ ~calls[Len(calls)].ok
    /\ calls[Len(calls)].op = "execute"

----------------------------------------------------------------------------
(* Properties of the index                                                 *)

\* the writer has finished an operation that rebuilt the index
Rebuilt == ipc = "idle" /\ iop.op # "none" /\ iop.rebuilt

\* C22: after each build_index(catalog), a second build with the same
\* catalog and a build after one from another catalog included, the index
\* holds exactly one entry per schema name of that catalog: as many entries
\* as the catalog has schemas, none of them left from the build before.
C22_RebuildReplaces ==
    Rebuilt =>
        /\ store.exists
        /\ store.ids = iop.schemas
        /\ Cardinality(store.ids) = Cardinality(iop.schemas)

\* a second build, from a smaller catalog than the one indexed before, left
\* the entries of its own catalog alone
C22_Witness ==
    /\ Rebuilt
    /\ builds = 2
    /\ iop.op = "build_index"
    /\ iop.before.ids = DbNames
    /\ iop.schemas = {<<"a">>}
    /\ store.ids = {<<"a">>}

\* C23: a search or count that runs while build_index is under way never
\* observes a partially rebuilt index: it sees the complete index of before
\* the rebuild or the complete index after it, never a deleted, an empty or
\* a partly filled collection.
C23_ReadersSeeCompleteIndex ==
    (lastread.kind # "none" /\ lastread.during # "idle") =>
        /\ ~lastread.failed
        /\ lastread.kind = "search" =>
             {lastread.found[i].name : i \in DOMAIN lastread.found}
                \in {lastread.old, lastread.new}
        /\ lastread.kind = "count" =>
             lastread.count \in {Cardinality(lastread.old),
                                 Cardinality(lastread.new)}

\* C25: every candidate search returns has a similarity in [0, 1], which is
\* 1 minus the cosine distance the index reports.
C25_SimilarityInUnitInterval ==
    lastread.kind = "search" =>
        \A i \in DOMAIN lastread.found :
            /\ lastread.found[i].similarity = 100 - lastread.found[i].distance
            /\ lastread.found[i].similarity >= 0
            /\ lastread.found[i].similarity <= 100

\* C30: ensure_index_built rebuilds the index exactly when the index holds
\* no entry or its count cannot be read; an index of at least one entry is
\* left as it is.
C30_EnsureRebuildsOnlyEmpty ==
    iop.op = "ensure_index_built" =>
        /\ iop.rebuilt <=> (~iop.readable \/ Cardinality(iop.before.ids) = 0)
        /\ (ipc = "idle" /\ iop.rebuilt) => store.ids = iop.schemas
        /\ ~iop.rebuilt => (ipc = "idle" /\ store = iop.before)

\* a populated index that differs from the catalog was left as it was
C30_Witness ==
    /\ iop.op = "ensure_index_built"
    /\ ipc = "idle"
    /\ ~iop.rebuilt
    /\ store.ids = {<<"a">>}
    /\ iop.schemas = DbNames

\* ------------------------------------------------------------------
\* The schema cache: save_schemas_to_cache and load_schemas_from_cache
\* ------------------------------------------------------------------

\* longest column list of a table of the catalogs below
MaxColumns == 2

\* the dataclasses of the parser
ColumnInfo(name, type, is_primary_key, is_foreign_key, references) ==
    [name |-> name, type |-> type, is_primary_key |-> is_primary_key,
     is_foreign_key |-> is_foreign_key, references |-> references]

TableInfo(name, columns) == [name |-> name, columns |-> columns]

DatabaseSchema(name, path, tables) ==
    [name |-> name, path |-> path, tables |-> tables]

\* the values of a JSON document; an object keeps its members in the order
\* they were written
JString(s) == [json |-> "string", value |-> s]
JBool(b) == [json |-> IF b THEN "true" ELSE "false"]
JNull == [json |-> "null"]
JArray(items) == [json |-> "array", items |-> items]
JObject(members) == [json |-> "object", members |-> members]

\* what json.load makes of a JSON string, boolean or null
FromJson(j) ==
    CASE j.json = "string" -> Some(j.value)
      [] j.json = "true"   -> TRUE
      [] j.json = "false"  -> FALSE
      [] j.json = "null"   -> None

HasKey(obj, key) == \E i \in DOMAIN obj.members : obj.members[i][1] = key

Get(obj, key) ==
    obj.members[CHOOSE i \in DOMAIN obj.members : obj.members[i][1] = key][2]

\* a str field read back: json.load gives the str itself
StrOf(j) == FromJson(j).val

\* asdict(c) as json.dump writes it
asdict_without_references(c) ==
    JObject(<< <<"name", JString(c.name)>>,
               <<"type", JString(c.type)>>,
               <<"is_primary_key", JBool(c.is_primary_key)>>,
               <<"is_foreign_key", JBool(c.is_foreign_key)>> >>)

asdict(c) ==
    JObject(<< <<"name", JString(c.name)>>,
               <<"type", JString(c.type)>>,
               <<"is_primary_key", JBool(c.is_primary_key)>>,
               <<"is_foreign_key", JBool(c.is_foreign_key)>>,
               <<"references", IF c.references.some
                                 THEN JString(c.references.val)
                                 ELSE JNull>> >>)

\* the document save_schemas_to_cache writes for a catalog, given as the
\* items of the dict in their order
save_schemas_to_cache(schemas) ==
    JObject([i \in DOMAIN schemas |->
        <<schemas[i][1],
          JObject(<<
            <<"name", JString(schemas[i][2].name)>>,
            <<"path", JString(schemas[i][2].path)>>,
            <<"tables", JArray([t \in DOMAIN schemas[i][2].tables |->
                JObject(<<
                  <<"name", JString(schemas[i][2].tables[t].name)>>,
                  <<"columns",
                    JArray([c \in DOMAIN schemas[i][2].tables[t].columns |->
                       asdict(schemas[i][2].tables[t].columns[c])])>> >>)])>>
          >>)>>])

\* ColumnInfo(**c): references defaults to None
ColumnFromDict(c) ==
    ColumnInfo(StrOf(Get(c, "name")), StrOf(Get(c, "type")),
               FromJson(Get(c, "is_primary_key")),
               FromJson(Get(c, "is_foreign_key")),
               IF HasKey(c, "references")
                 THEN FromJson(Get(c, "references")) ELSE None)

TableFromDict(t) ==
    TableInfo(StrOf(Get(t, "name")),
              [c \in DOMAIN Get(t, "columns").items |->
                  ColumnFromDict(Get(t, "columns").items[c])])

\* the result of load_schemas_from_cache: None without a file, else the
\* catalog rebuilt from the document
NoFile == [exists |-> FALSE, data |-> JObject(<<>>)]
File(data) == [exists |-> TRUE, data |-> data]
Loaded(none, schemas) == [none |-> none, schemas |-> schemas]

load_schemas_from_cache(file) ==
    IF ~file.exists
      THEN Loaded(TRUE, <<>>)
      ELSE Loaded(FALSE,
             [i \in DOMAIN file.data.members |->
                <<file.data.members[i][1],
                  DatabaseSchema(
                    StrOf(Get(file.data.members[i][2], "name")),
                    StrOf(Get(file.data.members[i][2], "path")),
                    [t \in DOMAIN Get(file.data.members[i][2], "tables").items |->
                       TableFromDict(
                         Get(file.data.members[i][2], "tables").items[t])])>>])

\* the catalogs saved: columns that differ in one field each, tables of up
\* to MaxColumns columns in every order, schemas of up to two tables in both
\* orders, catalogs of up to two schemas in both orders
ColumnInfos ==
    { ColumnInfo("id", "INTEGER", FALSE, FALSE, None),
      ColumnInfo("ad", "INTEGER", FALSE, FALSE, None),
      ColumnInfo("id", "TEXT", FALSE, FALSE, None),
      ColumnInfo("id", "INTEGER", TRUE, FALSE, None),
      ColumnInfo("id", "INTEGER", FALSE, TRUE, None),
      ColumnInfo("id", "INTEGER", FALSE, TRUE, Some("t(id)")) }

ColumnLists == UNION {[1..n -> ColumnInfos] : n \in 0..MaxColumns}

OtherTable == TableInfo("u", <<>>)

TableLists ==
    {<<>>} \cup
    UNION {{ <<TableInfo("t", cols)>>,
             <<TableInfo("t", cols), OtherTable>>,
             <<OtherTable, TableInfo("t", cols)>> } : cols \in ColumnLists}

OtherSchema == <<"ab", DatabaseSchema("ab", "/db/ab/ab.sqlite", <<>>)>>

CacheCatalogs ==
    {<<>>} \cup
    UNION {{ << <<"a", DatabaseSchema("a", "/db/a/a.sqlite", tables)>> >>,
             << <<"a", DatabaseSchema("a", "/db/a/a.sqlite", tables)>>,
                OtherSchema >>,
             << OtherSchema,
                <<"a", DatabaseSchema("a", "/db/a/a.sqlite", tables)>> >> }
           : tables \in TableLists}

InitCache ==
    /\ kpc = "start"
    /\ kschemas \in CacheCatalogs
    /\ kfile = NoFile
    /\ kloaded = Loaded(TRUE, <<>>)
    /\ ChatIdle
    /\ ValidatorIdle
    /\ ExecutorIdle
    /\ ScoreIdle
    /\ IndexIdle
    /\ SelectIdle

\* save_schemas_to_cache(schemas) writes the cache file
SaveSchemasToCache ==
    /\ kpc \in {"start", "missing"}
    /\ kfile' = File(save_schemas_to_cache(kschemas))
    /\ kpc' = "saved"
    /\ UNCHANGED <<kschemas, kloaded, chatVars, validatorVars, executorVars,
                   scoreVars, indexVars, selectVars>>

\* load_schemas_from_cache() reads it, or finds no file
LoadSchemasFromCache ==
    /\ kpc \in {"start", "saved"}
    /\ kloaded' = load_schemas_from_cache(kfile)
    /\ kpc' = IF kfile.exists THEN "loaded" ELSE "missing"
    /\ UNCHANGED <<kschemas, kfile, chatVars, validatorVars, executorVars,
                   scoreVars, indexVars, selectVars>>

NextCache ==
    \/ SaveSchemasToCache
    \/ LoadSchemasFromCache

SpecCache == InitCache /\ [][NextCache]_vars

\* ------------------------------------------------------------------
\* Properties of the schema cache
\* ------------------------------------------------------------------

\* C24: a catalog saved with save_schemas_to_cache and reloaded with
\* load_schemas_from_cache equals the original: the same keys in the same
\* order, and for each schema the same name, path, tables in order, columns
\* in order and all five fields of every column.
C24_CacheRoundTrip ==
    kpc = "loaded" =>
        /\ ~kloaded.none
        /\ kloaded.schemas = kschemas

\* a reloaded catalog of two schemas, one with two tables, one of them with
\* two columns, one of those a foreign key with its reference
C24_Witness ==
    /\ kpc = "loaded"
    /\ Len(kloaded.schemas) = 2
    /\ kloaded.schemas[1][1] = "ab"
    /\ Len(kloaded.schemas[2][2].tables) = 2
    /\ kloaded.schemas[2][2].tables[2].name = "t"
    /\ Len(kloaded.schemas[2][2].tables[2].columns) = 2
    /\ kloaded.schemas[2][2].tables[2].columns[2].references = Some("t(id)")
    /\ kloaded.schemas[2][2].tables[2].columns[1].is_primary_key

\* ------------------------------------------------------------------
\* The selector alone: select_database_and_generate_sql on a response and
\* a candidate list
\* ------------------------------------------------------------------

\* the longest response given to the selector, in lines
MaxSelectLines == 3

SelectLines == {
    <<"V","E","R","I","T","A","B","A","N","I",":"," ","a">>,
    <<"V","e","r","i","t","a","b","a","n",NoDotI,":"," ","'","A","B","'">>,
    <<"S","Q","L",":"," ","S","E","L","E","C","T"," ","1",";">>,
    <<"b","e","l","i","r","s","i","z",":"," ","x">>,
    <<"A","l","a","k","a","s","i","z",":"," ","y">>,
    <<"h","m">> }

RECURSIVE SelectTexts(_)
SelectTexts(n) ==
    IF n = 0 THEN {<<>>}
    ELSE LET prev == SelectTexts(n - 1)
         IN  prev \cup SelectLines
             \cup {p \o <<"\n">> \o l : p \in prev \ {<<>>}, l \in SelectLines}

\* the candidate lists retrieval hands over: ranked, never empty
SelectCandidates ==
    { << [name |-> <<"a">>, similarity |-> 90] >>,
      << [name |-> <<"b">>, similarity |-> 90] >>,
      << [name |-> <<"a","b">>, similarity |-> 90],
         [name |-> <<"a">>, similarity |-> 40] >>,
      << [name |-> <<"a">>, similarity |-> 90],
         [name |-> <<"a","b">>, similarity |-> 40] >>,
      << [name |-> <<"b">>, similarity |-> 90],
         [name |-> <<"a","b">>, similarity |-> 90] >> }

InitSelect ==
    /\ spc = "start"
    /\ stext \in SelectTexts(MaxSelectLines)
    /\ scands \in SelectCandidates
    /\ sres = NoSelection
    /\ ChatIdle
    /\ ValidatorIdle
    /\ ExecutorIdle
    /\ ScoreIdle
    /\ IndexIdle
    /\ CacheIdle

\* response = self.generate(prompt) and the parse of the response
SelectDatabase ==
    /\ spc = "start"
    /\ sres' = select_database_and_generate_sql(generate(stext), scands)
    /\ spc' = "done"
    /\ UNCHANGED <<stext, scands, chatVars, validatorVars, executorVars,
                   scoreVars, indexVars, cacheVars>>

NextSelect == SelectDatabase

SpecSelect == InitSelect /\ [][NextSelect]_vars

\* ------------------------------------------------------------------
\* Properties of the selector
\* ------------------------------------------------------------------

\* marker stands somewhere in text, in any letter case
ContainsAnyCase(text, marker) ==
    \E i \in 1..(Len(text) - Len(marker) + 1) :
        \A j \in 1..Len(marker) : text[i + j - 1] \in CaseVariants(marker[j])

\* the database-name token the parse of the response ends with
ParsedToken(text) ==
    ScanLines(SplitLines(Strip(generate(text))), None, None).db_name

\* the response went through the parse, not through a sentinel return
Parsed(text) ==
    /\ ~HasMarker(generate(text), BELIRSIZ)
    /\ ~HasMarker(generate(text), ALAKASIZ)

\* C26: when the model's database-name token (lower-cased, quotes removed)
\* equals the lower-cased name of a candidate, that candidate is selected;
\* when the token neither equals nor is a substring of any candidate name,
\* or there is no token, the top-ranked candidate is selected.
C26_ExactMatchSelected ==
    (spc = "done" /\ Parsed(stext)) =>
        LET token == ParsedToken(stext) IN
        /\ \A i \in DOMAIN scands :
             (token.some /\ Lower(scands[i].name) = token.val)
                => sres.selected = scands[i]
        /\ (~token.some \/
            \A i \in DOMAIN scands :
               /\ Lower(scands[i].name) # token.val
               /\ ~Contains(Lower(scands[i].name), token.val))
                => sres.selected = scands[1]

\* C29: a response that contains BELIRSIZ in any letter case gives the
\* ambiguous outcome, also when it has a database line and a complete
\* SELECT statement; otherwise a response that contains ALAKASIZ gives the
\* irrelevant outcome; a query comes only from a response with neither.
C29_SentinelsFirst ==
    spc = "done" =>
        /\ ContainsAnyCase(stext, BELIRSIZ)
              => IsSentinel(sres.sql, BELIRSIZ)
        /\ (~ContainsAnyCase(stext, BELIRSIZ) /\ ContainsAnyCase(stext, ALAKASIZ))
              => IsSentinel(sres.sql, ALAKASIZ)
        /\ (~IsSentinel(sres.sql, BELIRSIZ) /\ ~IsSentinel(sres.sql, ALAKASIZ))
              => (/\ ~ContainsAnyCase(stext, BELIRSIZ)
                  /\ ~ContainsAnyCase(stext, ALAKASIZ))

\* a response with a database line, a complete SELECT and the ambiguous
\* marker in lower case gave the ambiguous outcome with the top candidate
C29_Witness ==
    /\ spc = "done"
    /\ stext = <<"V","E","R","I","T","A","B","A","N","I",":"," ","a">> \o <<"\n">> \o
               <<"S","Q","L",":"," ","S","E","L","E","C","T"," ","1",";">> \o <<"\n">> \o
               <<"b","e","l","i","r","s","i","z",":"," ","x">>
    /\ IsSentinel(sres.sql, BELIRSIZ)
    /\ Len(scands) = 2
    /\ sres.selected = scands[1]

\* ------------------------------------------------------------------
\* Properties of the chat pipeline: what the selection hands on
\* ------------------------------------------------------------------

\* the model answered and the selector returned its result
SelectionMade ==
    \E i \in DOMAIN calls : calls[i].op = "generate" /\ calls[i].ok

\* the response has no sentinel, no database-name marker, no query marker
\* and no line that starts with SELECT
NothingParses(text) ==
    /\ ~ContainsAnyCase(text, BELIRSIZ)
    /\ ~ContainsAnyCase(text, ALAKASIZ)
    /\ ~ContainsAnyCase(text, VERI_YOK)
    /\ \A line \in Range(SplitLines(Strip(text))) :
         /\ ~IsDatabaseLine(Strip(line))
         /\ ~IsSqlLine(Strip(line))
         /\ ~StartsWith(Upper(Strip(line)), SELECT)

====
